---- MODULE Spec2Model ----
(***************************************************************************)
(* Model of smmap/util.py: page alignment, MemoryWindow geometry,          *)
(* MappedRegion construction and the MappedRegionList file size cache.     *)
(***************************************************************************)
EXTENDS Integers, Sequences, FiniteSets, TLC

VARIABLES
    win,          \* the MemoryWindow under test: [ofs, size]
    old,          \* the window as it was before the last call
    op,           \* name of the last call
    arg_window,   \* the neighbor window passed to the last extend_* call
    arg_max,      \* the max_size passed to the last extend_* call
    num,          \* argument of the last align_to_page call
    round_up,     \* argument of the last align_to_page call
    res,          \* result of the last align_to_page call
    left,         \* fixed left neighbor  (SpecBetween)
    right,        \* fixed right neighbor (SpecBetween)
    disk,         \* size in bytes of the file at the mapped path, now
    pc,           \* position inside MappedRegion.__init__: idle, try, finally
    fds,          \* number of descriptors opened by __init__ and not closed
    obj,          \* the MappedRegion being constructed: [_b, _size, _uc]
    c_size,       \* the size argument of the current/last __init__
    st_size,      \* {} or {what os.fstat(fd).st_size gave in the current/last __init__}
    raised,       \* {} or {the exception leaving __init__}
    region,       \* {} or {the MappedRegion the last __init__ returned}
    rlist,        \* the items of the MappedRegionList, in order
    _file_size,   \* MappedRegionList._file_size: {} is None, else {size}
    fs_ret,       \* {} or {what the last successful file_size() returned}
    fs_first,     \* {} or {what the first successful file_size() returned}
    fs_disk       \* {} or {the size on disk when file_size() last returned}

geo_vars == <<win, old, op, arg_window, arg_max, num, round_up, res, left, right>>

region_vars == <<pc, fds, obj, c_size, st_size, raised, region>>

list_vars == <<rlist, _file_size, fs_ret, fs_first, fs_disk>>

vars == <<geo_vars, disk, region_vars, list_vars>>

----------------------------------------------------------------------------
(* Bounds and input sets *)

\* mmap.PAGESIZE on the usual platform (util.py docstring: "usually is 4096")
PAGESIZE == 4096

\* offsets and sizes range over MaxPages whole pages plus a few remainders
MaxPages == 2

Pages == {k * PAGESIZE : k \in 0..MaxPages}

Offsets == {p + d : p \in Pages, d \in {0, 10, 904}}

Sizes == {p + d : p \in Pages, d \in {0, 100, 2000}}

MaxSizes == Pages \cup {PAGESIZE \div 2}

NeighborSizes == {0, PAGESIZE}

\* align_to_page is applied to every num in 0..MaxNum
MaxNum == 12288

\* sizes the file on disk can have (10000: a size that is not page aligned)
FileSizes == {0, PAGESIZE, 10000}

\* offsets given to MappedRegion: the page offsets and one unaligned offset
RegionOffsets == Pages \cup {10}

\* sizes given to MappedRegion
RegionSizes == {0, 100, PAGESIZE, 4 * PAGESIZE}

\* longest MappedRegionList
MaxRegions == 2

----------------------------------------------------------------------------
(* Pure functions of util.py *)

min(a, b) == IF a < b THEN a ELSE b

\* mutant: rounds up even when num is already aligned
align_to_page_always_up(n, up) ==
    LET r == (n \div PAGESIZE) * PAGESIZE
    IN  IF up THEN r + PAGESIZE ELSE r

align_to_page(n, up) ==
    LET r == (n \div PAGESIZE) * PAGESIZE
    IN  IF up /\ (r # n) THEN r + PAGESIZE ELSE r

MemoryWindow(offset, size) == [ofs |-> offset, size |-> size]

ofs_end(self) == self.ofs + self.size

\* mutant: the size is not grown by the amount the offset moved back
align_keep_size(self) ==
    LET nofs == align_to_page(self.ofs, FALSE)
    IN  [ofs |-> nofs, size |-> align_to_page(self.size, TRUE)]

align(self) ==
    LET nofs  == align_to_page(self.ofs, FALSE)
        size1 == self.size + (self.ofs - nofs)
    IN  [ofs |-> nofs, size |-> align_to_page(size1, TRUE)]

\* mutant: the gap is taken with the operands swapped
extend_left_to_swapped(self, window, max_size) ==
    LET rofs  == ofs_end(window) - self.ofs
        nsize == rofs + self.size
        rofs2 == rofs - (nsize - min(nsize, max_size))
    IN  [ofs |-> self.ofs - rofs2, size |-> self.size + rofs2]

\* mutant: the offset moves but the size is not grown with it
extend_left_to_ofs_only(self, window, max_size) ==
    LET rofs  == self.ofs - ofs_end(window)
        nsize == rofs + self.size
        rofs2 == rofs - (nsize - min(nsize, max_size))
    IN  [ofs |-> self.ofs - rofs2, size |-> self.size]

extend_left_to(self, window, max_size) ==
    LET rofs  == self.ofs - ofs_end(window)
        nsize == rofs + self.size
        rofs2 == rofs - (nsize - min(nsize, max_size))
    IN  [ofs |-> self.ofs - rofs2, size |-> self.size + rofs2]

\* mutant: max_size is ignored
extend_right_to_uncapped(self, window, max_size) ==
    [ofs  |-> self.ofs,
     size |-> self.size + (window.ofs - ofs_end(self))]

\* mutant: grows to the neighbor's end instead of its start
extend_right_to_end(self, window, max_size) ==
    [ofs  |-> self.ofs,
     size |-> min(self.size + (ofs_end(window) - ofs_end(self)), max_size)]

extend_right_to(self, window, max_size) ==
    [ofs  |-> self.ofs,
     size |-> min(self.size + (window.ofs - ofs_end(self)), max_size)]

----------------------------------------------------------------------------
(* Parts of the state a specification does not use stay at these values *)

NoWindow == MemoryWindow(0, 0)

NoRegion == [_b |-> 0, _size |-> 0, _uc |-> 0]

RegionUnused ==
    /\ disk = 0
    /\ pc = "idle"
    /\ fds = 0
    /\ obj = NoRegion
    /\ c_size = 0
    /\ st_size = {}
    /\ raised = {}
    /\ region = {}

ListUnused ==
    /\ rlist = <<>>
    /\ _file_size = {}
    /\ fs_ret = {}
    /\ fs_first = {}
    /\ fs_disk = {}

WindowUnused ==
    /\ win = NoWindow
    /\ old = NoWindow
    /\ op = "init"
    /\ arg_window = NoWindow
    /\ arg_max = 0
    /\ num = 0
    /\ round_up = FALSE
    /\ res = 0
    /\ left = NoWindow
    /\ right = NoWindow

----------------------------------------------------------------------------
(* align_to_page applied to each input once *)

InitAlign ==
    /\ num \in 0..MaxNum
    /\ round_up \in BOOLEAN
    /\ res = 0
    /\ op = "init"
    /\ win = NoWindow
    /\ old = NoWindow
    /\ arg_window = NoWindow
    /\ arg_max = 0
    /\ left = NoWindow
    /\ right = NoWindow
    /\ RegionUnused
    /\ ListUnused

AlignToPage ==
    /\ op = "init"
    /\ res' = align_to_page(num, round_up)
    /\ op' = "align_to_page"
    /\ UNCHANGED <<num, round_up, win, old, arg_window, arg_max, left, right>>
    /\ UNCHANGED <<disk, region_vars, list_vars>>

NextAlign == AlignToPage

SpecAlign == InitAlign /\ [][NextAlign]_vars

----------------------------------------------------------------------------
(* Window geometry: calls on one MemoryWindow with arbitrary arguments *)

Windows == {MemoryWindow(o, s) : o \in Offsets, s \in Sizes}

Neighbors == {MemoryWindow(o, s) : o \in Pages, s \in NeighborSizes}

InitWindow ==
    /\ win \in Windows
    /\ old = win
    /\ op = "init"
    /\ arg_window = NoWindow
    /\ arg_max = 0
    /\ num = 0
    /\ round_up = FALSE
    /\ res = 0
    /\ left = NoWindow
    /\ right = NoWindow
    /\ RegionUnused
    /\ ListUnused

Align ==
    /\ win' = align(win)
    /\ old' = win
    /\ op' = "align"
    /\ arg_window' = NoWindow
    /\ arg_max' = 0
    /\ num' = 0
    /\ round_up' = FALSE
    /\ res' = 0
    /\ UNCHANGED <<left, right, disk, region_vars, list_vars>>

ExtendLeftTo ==
    \E window \in Neighbors, max_size \in MaxSizes :
        /\ win' = extend_left_to(win, window, max_size)
        /\ old' = win
        /\ op' = "extend_left_to"
        /\ arg_window' = window
        /\ arg_max' = max_size
        /\ num' = 0
        /\ round_up' = FALSE
        /\ res' = 0
        /\ UNCHANGED <<left, right, disk, region_vars, list_vars>>

ExtendRightTo ==
    \E window \in Neighbors, max_size \in MaxSizes :
        /\ win' = extend_right_to(win, window, max_size)
        /\ old' = win
        /\ op' = "extend_right_to"
        /\ arg_window' = window
        /\ arg_max' = max_size
        /\ num' = 0
        /\ round_up' = FALSE
        /\ res' = 0
        /\ UNCHANGED <<left, right, disk, region_vars, list_vars>>

NextWindow ==
    \/ Align
    \/ ExtendLeftTo
    \/ ExtendRightTo

SpecWindow == InitWindow /\ [][NextWindow]_vars

----------------------------------------------------------------------------
(* A window between two fixed neighbors, snapped towards them repeatedly *)

BetweenRights == {MemoryWindow(o, s) : o \in Pages \cup {(MaxPages + 1) * PAGESIZE},
                                       s \in NeighborSizes}

\* caps tried between the neighbors, a negative one included
BetweenMaxSizes == MaxSizes \cup {0 - (PAGESIZE \div 2)}

BetweenWindows == {MemoryWindow(o, s) : o \in Offsets, s \in Sizes \cup {PAGESIZE \div 2}}

InitBetween ==
    /\ left \in Neighbors
    /\ right \in BetweenRights
    /\ win \in BetweenWindows
    /\ ofs_end(left) <= win.ofs
    /\ ofs_end(win) <= right.ofs
    /\ old = win
    /\ op = "init"
    /\ arg_window = NoWindow
    /\ arg_max = 0
    /\ num = 0
    /\ round_up = FALSE
    /\ res = 0
    /\ RegionUnused
    /\ ListUnused

SnapLeft ==
    \E max_size \in BetweenMaxSizes :
        /\ win' = extend_left_to(win, left, max_size)
        /\ old' = win
        /\ op' = "extend_left_to"
        /\ arg_window' = left
        /\ arg_max' = max_size
        /\ UNCHANGED <<num, round_up, res, left, right>>
        /\ UNCHANGED <<disk, region_vars, list_vars>>

SnapRight ==
    \E max_size \in BetweenMaxSizes :
        /\ win' = extend_right_to(win, right, max_size)
        /\ old' = win
        /\ op' = "extend_right_to"
        /\ arg_window' = right
        /\ arg_max' = max_size
        /\ UNCHANGED <<num, round_up, res, left, right>>
        /\ UNCHANGED <<disk, region_vars, list_vars>>

NextBetween ==
    \/ SnapLeft
    \/ SnapRight

SpecBetween == InitBetween /\ [][NextBetween]_vars

----------------------------------------------------------------------------
(* MappedRegion: construction, step by step, and its accessors *)

\* sys.version_info[1] < 6: false on the runtimes whose mmap takes an offset
_need_compat_layer == FALSE

\* the length handed to mmap: the requested size corrected to the file size
mmap_length(file_size, ofs, size) ==
    LET corrected_size == IF _need_compat_layer THEN size + ofs ELSE size
        sizeofs        == IF _need_compat_layer THEN 0 ELSE ofs
    IN  min(file_size - sizeofs, corrected_size)

\* the offset keyword handed to mmap (absent, hence 0, in the compat layer)
mmap_offset(ofs) == IF _need_compat_layer THEN 0 ELSE ofs

\* mmap.mmap(fd, length, access=ACCESS_READ, offset=offset) on a regular file
\* of file_size bytes: the length of the map, or a raised error.  A length of
\* 0 asks for the whole file from offset on.
mmap(file_size, length, offset) ==
    IF length < 0 \/ offset < 0
        THEN [ok |-> FALSE, len |-> 0]    \* "memory mapped size must be positive"
    ELSE IF length = 0
        THEN IF file_size = 0 \/ offset >= file_size
                 THEN [ok |-> FALSE, len |-> 0]    \* empty file, offset past the end
                 ELSE IF offset % PAGESIZE # 0
                          THEN [ok |-> FALSE, len |-> 0]    \* EINVAL
                          ELSE [ok |-> TRUE, len |-> file_size - offset]
    ELSE IF offset > file_size \/ file_size - offset < length
        THEN [ok |-> FALSE, len |-> 0]    \* "mmap length is greater than file size"
    ELSE IF offset % PAGESIZE # 0
        THEN [ok |-> FALSE, len |-> 0]    \* EINVAL
    ELSE [ok |-> TRUE, len |-> length]

region_size(r) == IF _need_compat_layer THEN r._size - r._b ELSE r._size

region_ofs_end(r) == IF _need_compat_layer THEN r._size ELSE r._b + r._size

includes_ofs(r, ofs) ==
    IF _need_compat_layer
        THEN r._b <= ofs /\ ofs < r._size
        ELSE r._b <= ofs /\ ofs < r._b + r._size

\* the whole of MappedRegion(path, ofs, size) on a file of file_size bytes
\* when open and fstat succeed: {} if mmap raises, else {the region}
MappedRegion(file_size, ofs, size) ==
    LET mf == mmap(file_size, mmap_length(file_size, ofs, size), mmap_offset(ofs))
    IN  IF mf.ok THEN {[_b |-> ofs, _size |-> mf.len, _uc |-> 0]} ELSE {}

\* the file on disk grows, shrinks or is truncated by somebody else
FileChange ==
    /\ \E n \in FileSizes : n # disk /\ disk' = n
    /\ UNCHANGED <<geo_vars, region_vars, list_vars>>

\* __init__ up to os.open: the fields are set, then the file is opened
Open ==
    /\ pc = "idle"
    /\ \E ofs \in RegionOffsets, size \in RegionSizes, opened \in BOOLEAN :
        /\ obj' = [_b |-> ofs, _size |-> 0, _uc |-> 0]
        /\ c_size' = size
        /\ region' = {}
        /\ st_size' = {}
        /\ IF opened
              THEN /\ fds' = fds + 1
                   /\ pc' = "try"
                   /\ raised' = {}
              ELSE /\ fds' = fds
                   /\ pc' = "idle"
                   /\ raised' = {"OSError"}
    /\ UNCHANGED <<geo_vars, disk, list_vars>>

\* the body of the try block: fstat, mmap, len
Map ==
    /\ pc = "try"
    /\ \E fstat_ok \in BOOLEAN, os_ok \in BOOLEAN :
        LET mf == mmap(disk, mmap_length(disk, obj._b, c_size), mmap_offset(obj._b))
        IN  IF ~fstat_ok
                THEN /\ raised' = {"OSError"}
                     /\ UNCHANGED <<obj, st_size>>
            ELSE IF ~(mf.ok /\ os_ok)
                THEN /\ raised' = {"mmap.error"}
                     /\ st_size' = {disk}
                     /\ UNCHANGED obj
            ELSE /\ raised' = {}
                 /\ st_size' = {disk}
                 /\ obj' = [obj EXCEPT !._size = mf.len]
    /\ pc' = "finally"
    /\ UNCHANGED <<geo_vars, disk, fds, c_size, region, list_vars>>

\* mutant: the descriptor is closed after the mapping, not in a finally block
Close_on_success_only ==
    /\ pc = "finally"
    /\ fds' = IF raised = {} THEN fds - 1 ELSE fds
    /\ region' = IF raised = {} THEN {obj} ELSE {}
    /\ pc' = "idle"
    /\ UNCHANGED <<geo_vars, disk, obj, c_size, st_size, raised, list_vars>>

\* the finally block: os.close(fd); then __init__ returns or the error leaves
Close ==
    /\ pc = "finally"
    /\ fds' = fds - 1
    /\ region' = IF raised = {} THEN {obj} ELSE {}
    /\ pc' = "idle"
    /\ UNCHANGED <<geo_vars, disk, obj, c_size, st_size, raised, list_vars>>

InitRegion ==
    /\ WindowUnused
    /\ ListUnused
    /\ disk \in FileSizes
    /\ pc = "idle"
    /\ fds = 0
    /\ obj = NoRegion
    /\ c_size = 0
    /\ st_size = {}
    /\ raised = {}
    /\ region = {}

NextRegion ==
    \/ FileChange
    \/ Open
    \/ Map
    \/ Close

SpecRegion == InitRegion /\ [][NextRegion]_vars

----------------------------------------------------------------------------
(* MappedRegionList: a list of regions of one path, and its cached file size *)

\* sizes of the regions put into the list
ListRegionSizes == {PAGESIZE \div 2, PAGESIZE}

\* mutant: the cache is tested for truth, so a cached size of 0 counts as unset
file_size_unset_if_falsy(cached) == cached = {} \/ cached = {0}

\* self._file_size is None
file_size_unset(cached) == cached = {}

\* file_size(): stat the path on the first query, then answer from the cache
FileSize ==
    /\ \E stat_ok \in BOOLEAN :
        IF file_size_unset(_file_size)
            THEN IF stat_ok
                     THEN /\ _file_size' = {disk}
                          /\ fs_ret' = {disk}
                          /\ fs_first' = IF fs_first = {} THEN {disk} ELSE fs_first
                          /\ fs_disk' = {disk}
                     ELSE UNCHANGED <<_file_size, fs_ret, fs_first, fs_disk>>
            ELSE /\ fs_ret' = _file_size
                 /\ fs_first' = IF fs_first = {} THEN _file_size ELSE fs_first
                 /\ fs_disk' = {disk}
                 /\ UNCHANGED _file_size
    /\ UNCHANGED <<geo_vars, disk, region_vars, rlist>>

\* list.append of a region just mapped from the file as it is now
AppendRegion ==
    /\ Len(rlist) < MaxRegions
    /\ \E ofs \in Pages, size \in ListRegionSizes :
        \E r \in MappedRegion(disk, ofs, size) :
            rlist' = Append(rlist, r)
    /\ UNCHANGED <<geo_vars, disk, region_vars, _file_size, fs_ret, fs_first, fs_disk>>

\* list.remove / del of one item
RemoveRegion ==
    /\ \E i \in 1..Len(rlist) :
        rlist' = SubSeq(rlist, 1, i - 1) \o SubSeq(rlist, i + 1, Len(rlist))
    /\ UNCHANGED <<geo_vars, disk, region_vars, _file_size, fs_ret, fs_first, fs_disk>>

InitList ==
    /\ WindowUnused
    /\ disk \in FileSizes
    /\ pc = "idle"
    /\ fds = 0
    /\ obj = NoRegion
    /\ c_size = 0
    /\ st_size = {}
    /\ raised = {}
    /\ region = {}
    /\ rlist = <<>>
    /\ _file_size = {}
    /\ fs_ret = {}
    /\ fs_first = {}
    /\ fs_disk = {}

NextList ==
    \/ FileChange
    \/ FileSize
    \/ AppendRegion
    \/ RemoveRegion

SpecList == InitList /\ [][NextList]_vars

----------------------------------------------------------------------------
(* Claims about the geometry *)

\* C2: for every num >= 0, align_to_page(num, False) is a page multiple with
\* res <= num < res + PAGESIZE, align_to_page(num, True) is a page multiple
\* with num <= res < num + PAGESIZE, and res = num exactly when num is aligned.
C2_AlignToPage ==
    (op = "align_to_page" /\ num >= 0) =>
        /\ res % PAGESIZE = 0
        /\ ~round_up => (res <= num /\ num < res + PAGESIZE)
        /\ round_up => (num <= res /\ res < num + PAGESIZE)
        /\ (res = num) <=> (num % PAGESIZE = 0)

C2_Witness ==
    /\ op = "align_to_page"
    /\ round_up
    /\ num = 5000
    /\ res = 2 * PAGESIZE

\* C1: after align() of a window with non-negative offset and size, the new
\* byte range contains the old one: new ofs <= old ofs and new ofs_end >= old
\* ofs_end; Window(10, 100) becomes Window(0, 4096) and Window(5000, 2000)
\* becomes Window(4096, 4096).
C1_AlignContains ==
    (op = "align" /\ old.ofs >= 0 /\ old.size >= 0) =>
        /\ win.ofs <= old.ofs
        /\ ofs_end(win) >= ofs_end(old)
        /\ (old = MemoryWindow(10, 100)) => (win = MemoryWindow(0, PAGESIZE))
        /\ (old = MemoryWindow(5000, 2000)) => (win = MemoryWindow(PAGESIZE, PAGESIZE))

C1_Witness ==
    /\ op = "align"
    /\ old = MemoryWindow(5000, 2000)
    /\ win = MemoryWindow(PAGESIZE, PAGESIZE)

\* the gap between the window before the call and the neighbor on its left
gap == old.ofs - ofs_end(arg_window)

\* C3 (as stated): whenever the pre-call size is <= max_size, extend_left_to
\* yields size >= pre-call size and ofs <= pre-call ofs, for every neighbor.
C3_Original ==
    (op = "extend_left_to" /\ old.size <= arg_max) =>
        /\ win.size >= old.size
        /\ win.ofs <= old.ofs

\* C3 (amended): the same, for a neighbor that ends at or before the
\* window's offset (neighbor.ofs_end() <= ofs).
C3_ExtendLeftContains ==
    (op = "extend_left_to" /\ old.size <= arg_max /\ ofs_end(arg_window) <= old.ofs) =>
        /\ win.size >= old.size
        /\ win.ofs <= old.ofs

C3_Witness ==
    /\ op = "extend_left_to"
    /\ old.size <= arg_max
    /\ ofs_end(arg_window) < old.ofs
    /\ win.size > old.size
    /\ win.ofs < old.ofs

\* C4: extend_left_to leaves ofs_end() unchanged and sets size to
\* min(gap + size, max_size): the left edge touches the neighbor's right edge
\* when gap + size <= max_size, otherwise the size is exactly max_size.
C4_ExtendLeftEffect ==
    (op = "extend_left_to") =>
        /\ ofs_end(win) = ofs_end(old)
        /\ win.size = min(gap + old.size, arg_max)
        /\ (gap + old.size <= arg_max) => (win.ofs = ofs_end(arg_window))
        /\ (gap + old.size > arg_max) => (win.size = arg_max)

C4_Witness ==
    /\ op = "extend_left_to"
    /\ gap > 0
    /\ old.size < arg_max
    /\ gap + old.size > arg_max
    /\ win.size = arg_max
    /\ win.ofs > ofs_end(arg_window)

\* C5: extend_right_to never changes the offset, and the resulting size is
\* min(size + (neighbor.ofs - ofs_end()), max_size), hence <= max_size.
C5_ExtendRightEffect ==
    (op = "extend_right_to") =>
        /\ win.ofs = old.ofs
        /\ win.size = min(old.size + (arg_window.ofs - ofs_end(old)), arg_max)
        /\ win.size <= arg_max

C5_Witness ==
    /\ op = "extend_right_to"
    /\ arg_window.ofs > ofs_end(old)
    /\ old.size + (arg_window.ofs - ofs_end(old)) > arg_max
    /\ old.size < arg_max
    /\ win.size = arg_max

\* C10: a window between a left and a right neighbor overlaps neither after
\* any sequence of extend_left_to(left, m) and extend_right_to(right, m), and
\* right after a call it abuts that call's neighbor exactly when the cap did
\* not limit the growth.
C10_NoOverlap ==
    /\ ofs_end(left) <= win.ofs
    /\ ofs_end(win) <= right.ofs
    /\ (op = "extend_left_to") =>
          ((win.ofs = ofs_end(left)) <=> (gap + old.size <= arg_max))
    /\ (op = "extend_right_to") =>
          ((ofs_end(win) = right.ofs)
              <=> (old.size + (right.ofs - ofs_end(old)) <= arg_max))

C10_Witness ==
    /\ op = "extend_right_to"
    /\ left = MemoryWindow(0, PAGESIZE)
    /\ right = MemoryWindow(2 * PAGESIZE, PAGESIZE)
    /\ old = MemoryWindow(PAGESIZE, PAGESIZE \div 2)
    /\ arg_max = 2 * PAGESIZE
    /\ win = MemoryWindow(PAGESIZE, PAGESIZE)

----------------------------------------------------------------------------
(* Claims about MappedRegion and MappedRegionList *)

\* offsets probed with includes_ofs
ProbeOffsets == {p + d : p \in Pages \cup {(MaxPages + 1) * PAGESIZE}, d \in {0, 1, 1807, PAGESIZE - 1}}

\* C6: every successfully created MappedRegion(path, ofs, size)
\* has size() == min(size, file_size - ofs), so ofs_end() <= file_size and
\* includes_ofs(o) only for o < file_size; at offset 0 a request larger than
\* the file yields size() == file_size.
C6_RegionSize ==
    \A r \in region : \A file_size \in st_size :
        /\ region_size(r) = min(c_size, file_size - r._b)
        /\ region_ofs_end(r) <= file_size
        /\ \A o \in ProbeOffsets : includes_ofs(r, o) => o < file_size
        /\ (r._b = 0 /\ c_size > file_size) => region_size(r) = file_size

\* What MappedRegion does: the stated size for a requested size > 0, while a
\* requested size of 0 maps the file from ofs to its end.
RegionSizeAsBuilt ==
    \A r \in region :
        /\ st_size # {}
        /\ \A file_size \in st_size :
            /\ c_size > 0 => region_size(r) = min(c_size, file_size - r._b)
            /\ c_size = 0 => region_size(r) = file_size - r._b
            /\ region_ofs_end(r) <= file_size
            /\ \A o \in ProbeOffsets : includes_ofs(r, o) => o < file_size
            /\ (r._b = 0 /\ c_size > file_size) => region_size(r) = file_size

\* C7: no MappedRegion is successfully created when the offset
\* is beyond end-of-file or when the requested size is 0.
C7_CreationFails ==
    \A r \in region : \A file_size \in st_size :
        /\ ~(r._b > file_size)
        /\ c_size # 0

\* What MappedRegion does: creation fails with an error, and no region
\* results, whenever the offset is at or beyond end-of-file, whatever the
\* requested size.
FailsBeyondEofAsBuilt ==
    /\ \A r \in region : st_size # {} /\ \A file_size \in st_size : r._b < file_size
    /\ \A file_size \in st_size :
           (pc = "idle" /\ obj._b >= file_size) => (region = {} /\ raised # {})

\* C8: once __init__ has opened the file, the descriptor is closed by the
\* time __init__ finishes, on every exit path: no descriptor stays open
\* after any sequence of successful and failed creations.
C8_DescriptorClosed ==
    /\ pc = "idle" => fds = 0
    /\ pc # "idle" => fds = 1

C8_Witness ==
    /\ pc = "idle"
    /\ raised = {"mmap.error"}
    /\ st_size = {PAGESIZE}
    /\ fds = 0

\* C9: after the first successful file_size() call every later call returns
\* that same value, whatever happened to the file and to the list between.
C9_FileSizeCached ==
    /\ fs_ret = fs_first
    /\ fs_ret # {} => _file_size = fs_ret

C9_Witness ==
    /\ fs_ret # {}
    /\ fs_disk # fs_ret
    /\ fs_ret = fs_first
    /\ Len(rlist) > 0

====
